---- MODULE Spec2Model ----
(***************************************************************************)
(* CloudRealm: the progression-and-combat state of the game.               *)
(*                                                                         *)
(* The React state `gameState` lives in App (useState).  setGameState(v)   *)
(* replaces it with the plain value v; the components (Game, Player, Boss) *)
(* keep reading the value they were last rendered with until React        *)
(* renders again.  The model therefore keeps two records:                  *)
(*   gameState  the value most recently handed to setGameState             *)
(*   rendered   the value the current closures of Game/Player/Boss read    *)
(*              (`gameState` inside the components' callbacks)             *)
(* and a flag `dirty` that says a render is pending.  Every browser task   *)
(* (animation-frame callback, timer callback, key or touch event) runs to  *)
(* completion and is one action.  Render is the React commit, together     *)
(* with the effects the commit runs.                                        *)
(*                                                                         *)
(* Lengths are integers in units of 0.05 world units (1.9 is 38, the       *)
(* keyboard speed 0.15 is 3).  Time is counted in whole seconds: a timer   *)
(* is the number of seconds left, sinceAttack and sinceDying are the whole *)
(* seconds elapsed on the clock.  A frame falls between two ticks of the   *)
(* second, so `elapsed > interval` in a frame is `since >= interval`.      *)
(* The Boss re-renders on its own state within a frame, so its state       *)
(* (localBossHealth, isDescending, isDying) is read as last set.           *)
(***************************************************************************)
EXTENDS Integers, Sequences, FiniteSets, TLC

VARIABLES
    gameState,            \* App: useState<GameState>, the latest value set
    rendered,             \* the gameState the components were rendered with
    dirty,                \* setGameState was called since the last render
    weaponRef,            \* Player refs
    armourRef,
    magicRef,
    stageRef,
    positionRef,
    cooldownRef,
    cooldownTimer,        \* the setTimeout of applyCardSelection (-1: none)
    currentPos,           \* playerRef.current.position (x, z)
    moves,                \* number of moving ticks taken (bounded)
    currentBossHealthRef, \* Game ref
    windowGameState,      \* window.gameState
    showVictory,          \* Game state
    showTypewriter,       \* Victory state
    typewriterTimer,      \* Victory: setTimeout 6000 (-1: none)
    victoryMounted,       \* Game renders <Victory/>
    restartTimers,        \* Victory: the pending setTimeout(onRestart, 1000)s
    restarts,             \* Space presses on the victory screen so far
    afterRestart,         \* seconds since the first of them
    invulnTimers,         \* Game: the pending timeouts of handleRestartGame
    bossMounted,          \* Game renders <Boss/>
    bossHealthProp,       \* Boss prop bossHealth of the last render
    localBossHealth,      \* Boss state
    isDescending,
    isDying,
    isDefeated,
    renderedIsDefeated,   \* isDefeated as of Boss's last render
    descentTimer,         \* Boss: setTimeout(setIsDescending(false), 3000)
    sinceAttack,          \* whole seconds since lastAttackTime, saturated
    sinceDying,           \* whole seconds since damageRef, saturated
    defeatTimer,          \* Boss: setTimeout 4000 of the dying effect
    defeatClosure,        \* the gameState that timer's updateBossHealth reads
    locationSearch,       \* window.location.search, a sequence of tokens
    locationHref,         \* the URL assigned to window.location.href, if any
    portalMessage,        \* the "portal-message" element is in the document
    navigations,          \* assignments to window.location.href so far
    pageUnloaded          \* the navigation has replaced the document

vars == << gameState, rendered, dirty, weaponRef, armourRef, magicRef, stageRef,
           positionRef, cooldownRef, cooldownTimer, currentPos, moves,
           currentBossHealthRef, windowGameState, showVictory, showTypewriter,
           typewriterTimer, victoryMounted, restartTimers, restarts, afterRestart,
           invulnTimers, bossMounted, bossHealthProp, localBossHealth, isDescending, isDying,
           isDefeated, renderedIsDefeated, descentTimer, sinceAttack, sinceDying, defeatTimer, defeatClosure,
           locationSearch, locationHref, portalMessage, navigations, pageUnloaded >>

playerVars == << weaponRef, armourRef, magicRef, stageRef, positionRef,
                 cooldownRef, cooldownTimer, currentPos, moves >>
gameVars   == << currentBossHealthRef, windowGameState, showVictory >>
victoryVars == << showTypewriter, typewriterTimer, victoryMounted, restartTimers,
                 restarts, afterRestart >>
bossVars   == << bossMounted, bossHealthProp, localBossHealth, isDescending,
                 isDying, isDefeated, renderedIsDefeated, descentTimer, sinceAttack,
                 sinceDying,
                 defeatTimer, defeatClosure >>
portalVars == << locationSearch, locationHref, portalMessage, navigations, pageUnloaded >>

----------------------------------------------------------------------------
\* Bounds of the model.
MaxMoves == 1
MaxBlocks == 4
MaxRestartTimers == 1
MaxRestarts == 1
MaxSecondsAfterRestart == 2

\* The whole seconds since the last attack that are told apart
MaxElapsed == 2

\* null of TypeScript
null == "null"
NoTimer == -1

\* Program constants, lengths in units of 0.05, times in seconds.
speed == 3
XClamp == 38
ZMin == -400
ZMax == 6000
FallOffX == 40
CardRadius == 20
positionLerpDiv == 10
cooldownDelay == 1
initialBossHealth == 100
baseDamage == 10
attackInterval == 1
descentDuration == 3
dyingHold == 3
defeatDelay == 4
typewriterDelay == 6
restartDelay == 1
invulnDelay == 1

WeaponType == {"sword", "axe", "fist"}
ArmourType == {"steel", "knowledge", "gold"}
MagicType  == {"fire", "water", "love"}

\* Player.tsx stageCardPositions
stageCardPositions ==
    << << [x |-> -40, z |-> 200, type |-> "sword"],
          [x |->   0, z |-> 200, type |-> "fist"],
          [x |->  40, z |-> 200, type |-> "axe"] >>,
       << [x |-> -40, z |-> 500, type |-> "steel"],
          [x |->   0, z |-> 500, type |-> "knowledge"],
          [x |->  40, z |-> 500, type |-> "gold"] >>,
       << [x |-> -40, z |-> 800, type |-> "fire"],
          [x |->   0, z |-> 800, type |-> "water"],
          [x |->  40, z |-> 800, type |-> "love"] >> >>

\* App: the initial useState value
initialGameState ==
    [ weapon |-> null, armour |-> null, magic |-> null,
      position |-> [x |-> 0, z |-> 0],
      stage |-> 0,
      collectedBlocks |-> << >>,
      isInvulnerable |-> FALSE,
      bossHealth |-> initialBossHealth,
      bossDefeated |-> FALSE ]

Min(a, b) == IF a < b THEN a ELSE b
Max(a, b) == IF a > b THEN a ELSE b
Abs(a) == IF a < 0 THEN -a ELSE a

Sign(a) == IF a < 0 THEN -1 ELSE IF a > 0 THEN 1 ELSE 0

\* Vector3.lerp(target, positionLerpFactor) on one axis: a tenth of the way,
\* rounded to the lattice towards the target.
Lerp(cur, target) ==
    cur + Sign(target - cur) * ((Abs(target - cur) + positionLerpDiv - 1) \div positionLerpDiv)

\* Math.max(Math.min(v, hi), lo)
Clamp(v, lo, hi) == Max(Min(v, hi), lo)

\* gameState.collectedBlocks.some(block => block.x === card.x && block.z === card.z)
IsCollected(blocks, card) ==
    \E i \in 1..Len(blocks) : blocks[i].x = card.x /\ blocks[i].z = card.z

\* distance < 1.0 in the card loop of Player's useFrame
Collides(pos, card) ==
    (pos.x - card.x) * (pos.x - card.x) + (pos.z - card.z) * (pos.z - card.z)
        < CardRadius * CardRadius

\* The index (1..3) of the first card of `stage` the loop selects, 0 if none.
FirstHit(stage, pos, blocks) ==
    LET hits == { i \in 1..3 : /\ ~IsCollected(blocks, stageCardPositions[stage + 1][i])
                               /\ Collides(pos, stageCardPositions[stage + 1][i]) }
    IN IF hits = {} THEN 0 ELSE CHOOSE i \in hits : \A j \in hits : i <= j

\* The slot values and the stage applyCardSelection writes to the refs.
SelectedWeapon(stage, card) == IF stage = 0 THEN card.type ELSE weaponRef
SelectedArmour(stage, card) == IF stage = 1 THEN card.type ELSE armourRef
SelectedMagic(stage, card)  == IF stage = 2 THEN card.type ELSE magicRef
\* A stage counter that skips the armour stage
SelectedStage_SkipsArmour(stage) == IF stage = 0 THEN 2 ELSE stageRef

SelectedStage(stage) == IF stage = 0 THEN 1 ELSE IF stage = 1 THEN 2 ELSE stageRef

\* The collectedBlocks applyCardSelection writes: the closure's list plus the card.
SelectedBlocks(snap, card) ==
    Append(snap.collectedBlocks, [x |-> card.x, z |-> card.z])

\* applyCardSelection that does not raise the cooldown flag
applyCardSelection_NoCooldownFlag(stage, card, snap) ==
    IF cooldownRef
    THEN UNCHANGED << gameState, dirty, weaponRef, armourRef, magicRef, stageRef,
                      cooldownRef, cooldownTimer >>
    ELSE /\ weaponRef' = SelectedWeapon(stage, card)
         /\ armourRef' = SelectedArmour(stage, card)
         /\ magicRef' = SelectedMagic(stage, card)
         /\ stageRef' = SelectedStage(stage)
         /\ gameState' = [ weapon |-> SelectedWeapon(stage, card),
                           armour |-> SelectedArmour(stage, card),
                           magic |-> SelectedMagic(stage, card),
                           stage |-> SelectedStage(stage),
                           position |-> positionRef,
                           collectedBlocks |-> SelectedBlocks(snap, card),
                           isInvulnerable |-> snap.isInvulnerable,
                           bossHealth |-> snap.bossHealth,
                           bossDefeated |-> snap.bossDefeated ]
         /\ dirty' = TRUE
         /\ cooldownRef' = cooldownRef
         /\ cooldownTimer' = cooldownDelay

\* Player.applyCardSelection, called with the gameState `snap` of its closure.
applyCardSelection(stage, card, snap) ==
    IF cooldownRef
    THEN UNCHANGED << gameState, dirty, weaponRef, armourRef, magicRef, stageRef,
                      cooldownRef, cooldownTimer >>
    ELSE /\ weaponRef' = SelectedWeapon(stage, card)
         /\ armourRef' = SelectedArmour(stage, card)
         /\ magicRef' = SelectedMagic(stage, card)
         /\ stageRef' = SelectedStage(stage)
         /\ gameState' = [ weapon |-> SelectedWeapon(stage, card),
                           armour |-> SelectedArmour(stage, card),
                           magic |-> SelectedMagic(stage, card),
                           stage |-> SelectedStage(stage),
                           position |-> positionRef,
                           collectedBlocks |-> SelectedBlocks(snap, card),
                           isInvulnerable |-> snap.isInvulnerable,
                           bossHealth |-> snap.bossHealth,
                           bossDefeated |-> snap.bossDefeated ]
         /\ dirty' = TRUE
         /\ cooldownRef' = TRUE
         /\ cooldownTimer' = cooldownDelay

\* Player.forceSelectCard
forceSelectCard(stage, cardIndex, snap) ==
    IF cooldownRef \/ stage >= Len(stageCardPositions) \/ cardIndex >= 3
    THEN UNCHANGED << gameState, dirty, weaponRef, armourRef, magicRef, stageRef,
                      cooldownRef, cooldownTimer >>
    ELSE applyCardSelection(stage, stageCardPositions[stage + 1][cardIndex + 1], snap)

\* Player.handleKeyDown for the keys '1', '2', '3' (cardIndex = key - 1).
HandleKeyDown(cardIndex) ==
    /\ UNCHANGED portalVars
    /\ Len(rendered.collectedBlocks) < MaxBlocks
    /\ forceSelectCard(stageRef, cardIndex, rendered)
    /\ UNCHANGED << rendered, positionRef, currentPos, moves,
                    gameVars, victoryVars, invulnTimers, bossVars >>

\* The timeout applyCardSelection sets: release the cooldown.
CooldownTimeout ==
    /\ UNCHANGED portalVars
    /\ cooldownTimer = 0
    /\ cooldownTimer' = NoTimer
    /\ cooldownRef' = FALSE
    /\ UNCHANGED << gameState, rendered, dirty, weaponRef, armourRef, magicRef,
                    stageRef, positionRef, currentPos, moves,
                    gameVars, victoryVars, invulnTimers, bossVars >>

\* Player.updatePosition, with the gameState `snap` of its closure.
updatePosition(newX, newZ, snap) ==
    /\ positionRef' = [x |-> newX, z |-> newZ]
    /\ gameState' = [ weapon |-> weaponRef,
                      armour |-> armourRef,
                      magic |-> magicRef,
                      stage |-> stageRef,
                      position |-> [x |-> newX, z |-> newZ],
                      collectedBlocks |-> snap.collectedBlocks,
                      isInvulnerable |-> snap.isInvulnerable,
                      bossHealth |-> snap.bossHealth,
                      bossDefeated |-> snap.bossDefeated ]
    /\ dirty' = TRUE

\* NewX without the lateral clamp
NewX_NoClamp(dx) == positionRef.x + dx

\* The clamped coordinates of updateMovement and handleMobileMove.
NewX(dx) == Clamp(positionRef.x + dx, -XClamp, XClamp)
NewZ(dz) == Clamp(positionRef.z + dz, ZMin, ZMax)

\* Player.updateMovement, one requestAnimationFrame tick.  velocity.current is
\* the low-pass filtered target velocity, each component within [-speed, speed];
\* (vx, vz) is its value after this tick's lerp.
updateMovement(vx, vz) ==
    /\ UNCHANGED portalVars
    /\ (vx # 0 \/ vz # 0) => moves < MaxMoves
    /\ moves' = IF vx # 0 \/ vz # 0 THEN moves + 1 ELSE moves
    /\ updatePosition(NewX(vx), NewZ(vz), rendered)
    /\ UNCHANGED << rendered, weaponRef, armourRef, magicRef, stageRef,
                    cooldownRef, cooldownTimer, currentPos,
                    gameVars, victoryVars, invulnTimers, bossVars >>

\* Player.handleMobileMove(x, y): a direct move by (-x, y) * 0.0005 and the mesh
\* set to the new position.  (dx, dz) is that move on the lattice.
handleMobileMove(dx, dz) ==
    /\ UNCHANGED portalVars
    /\ moves < MaxMoves
    /\ moves' = moves + 1
    /\ updatePosition(NewX(dx), NewZ(dz), rendered)
    /\ currentPos' = [x |-> NewX(dx), z |-> NewZ(dz)]
    /\ UNCHANGED << rendered, weaponRef, armourRef, magicRef, stageRef,
                    cooldownRef, cooldownTimer,
                    gameVars, victoryVars, invulnTimers, bossVars >>

\* The state the fell-off branch of Player's useFrame writes.
FellOffState(snap) ==
    [ weapon |-> null, armour |-> null, magic |-> null,
      position |-> [x |-> 0, z |-> 0],
      stage |-> 0,
      collectedBlocks |-> << >>,
      isInvulnerable |-> FALSE,
      bossHealth |-> snap.bossHealth,
      bossDefeated |-> snap.bossDefeated ]

\* The mesh position after the lerp at the top of Player's useFrame.
LerpedPos ==
    [x |-> Lerp(currentPos.x, positionRef.x), z |-> Lerp(currentPos.z, positionRef.z)]

\* Player's useFrame callback.
PlayerFrame ==
    /\ UNCHANGED portalVars
    /\ currentPos' = LerpedPos
    /\ IF cooldownRef \/ rendered.isInvulnerable
       THEN UNCHANGED << gameState, dirty, weaponRef, armourRef, magicRef, stageRef,
                         positionRef, cooldownRef, cooldownTimer >>
       ELSE IF /\ stageRef < Len(stageCardPositions)
               /\ FirstHit(stageRef, LerpedPos, rendered.collectedBlocks) # 0
            THEN /\ applyCardSelection(stageRef,
                        stageCardPositions[stageRef + 1]
                            [FirstHit(stageRef, LerpedPos, rendered.collectedBlocks)],
                        rendered)
                 /\ UNCHANGED positionRef
            ELSE IF Abs(LerpedPos.x) > FallOffX
                 THEN /\ weaponRef' = null
                      /\ armourRef' = null
                      /\ magicRef' = null
                      /\ stageRef' = 0
                      /\ positionRef' = [x |-> 0, z |-> 0]
                      /\ gameState' = FellOffState(rendered)
                      /\ dirty' = TRUE
                      /\ UNCHANGED << cooldownRef, cooldownTimer >>
                 ELSE UNCHANGED << gameState, dirty, weaponRef, armourRef, magicRef,
                                   stageRef, positionRef, cooldownRef, cooldownTimer >>
    /\ UNCHANGED << rendered, moves, gameVars, victoryVars, invulnTimers, bossVars >>

----------------------------------------------------------------------------
\* Game: hasAllItems
hasAllItems(g) == g.weapon # null /\ g.armour # null /\ g.magic # null

\* Boss.calculateDamage: the bonuses and the magic factor (in tenths).
WeaponBonus(w) ==
    IF w = "axe" THEN 3 ELSE IF w = "sword" THEN 2 ELSE IF w = "fist" THEN 1 ELSE 0
ArmourBonus(a) ==
    IF a = "steel" THEN 2 ELSE IF a = "gold" THEN 1 ELSE IF a = "knowledge" THEN 3 ELSE 0
MagicTenths(m) ==
    IF m = "fire" THEN 15 ELSE IF m = "water" THEN 12 ELSE IF m = "love" THEN 13 ELSE 10

\* Math.floor in place of Math.round
RoundTenths_Floor(t) == t \div 10

\* Math.round of a non-negative number of tenths
RoundTenths(t) == (t + 5) \div 10

\* Boss.calculateDamage, for the gameState prop g
calculateDamage(g) ==
    RoundTenths((baseDamage + WeaponBonus(g.weapon) + ArmourBonus(g.armour))
                    * MagicTenths(g.magic))

\* updateBossHealth that leaves bossDefeated as it was
BossHealthState_KeepsFlag(newHealth, snap) == [snap EXCEPT !.bossHealth = newHealth]

\* The state Game's updateBossHealth writes, from the gameState `snap` of its closure.
BossHealthState(newHealth, snap) ==
    [ weapon |-> snap.weapon,
      armour |-> snap.armour,
      magic |-> snap.magic,
      position |-> snap.position,
      stage |-> snap.stage,
      collectedBlocks |-> snap.collectedBlocks,
      isInvulnerable |-> snap.isInvulnerable,
      bossHealth |-> newHealth,
      bossDefeated |-> (newHealth <= 0) ]

\* Game: the updateBossHealth prop of <Boss/>
updateBossHealth(newHealth, snap) ==
    /\ currentBossHealthRef' = newHealth
    /\ gameState' = BossHealthState(newHealth, snap)
    /\ dirty' = TRUE

\* Boss: an attack is due in this frame
AttackDue ==
    /\ ~isDescending
    /\ ~isDying
    /\ hasAllItems(rendered)
    /\ sinceAttack >= attackInterval

\* An attack that subtracts nothing
AttackHealth_NoDamage == localBossHealth

\* A timer that advances lastAttackTime by one interval
ElapsedAfterAttack_Accumulates == sinceAttack - attackInterval

\* Boss: lastAttackTime = currentTime, the time since the last attack is 0
ElapsedAfterAttack == 0

\* Boss: the health an attack leaves
AttackHealth == Max(0, localBossHealth - calculateDamage(rendered))

\* Boss's useFrame callback
BossFrame ==
    /\ UNCHANGED portalVars
    /\ bossMounted
    /\ IF isDefeated
       THEN UNCHANGED << gameState, dirty, currentBossHealthRef, localBossHealth,
                         isDying, isDefeated, sinceAttack, sinceDying >>
       ELSE IF isDying
       THEN /\ isDefeated' = (sinceDying >= dyingHold)
            /\ dirty' = (dirty \/ sinceDying >= dyingHold)
            /\ UNCHANGED << gameState, currentBossHealthRef, localBossHealth,
                            isDying, sinceAttack, sinceDying >>
       ELSE IF AttackDue
       THEN /\ localBossHealth' = AttackHealth
            /\ updateBossHealth(AttackHealth, rendered)
            /\ isDying' = (AttackHealth <= 0)
            /\ sinceDying' = IF AttackHealth <= 0 THEN 0 ELSE sinceDying
            /\ sinceAttack' = ElapsedAfterAttack
            /\ UNCHANGED isDefeated
       ELSE UNCHANGED << gameState, dirty, currentBossHealthRef, localBossHealth,
                         isDying, isDefeated, sinceAttack, sinceDying >>
    /\ UNCHANGED << rendered, playerVars, windowGameState, showVictory, victoryVars,
                    invulnTimers, bossMounted, bossHealthProp, isDescending,
                    renderedIsDefeated, descentTimer, defeatTimer, defeatClosure >>

\* Boss: setTimeout(() => setIsDescending(false), descentDuration)
DescentTimeout ==
    /\ UNCHANGED portalVars
    /\ descentTimer = 0
    /\ descentTimer' = NoTimer
    /\ isDescending' = FALSE
    /\ UNCHANGED << gameState, rendered, dirty, playerVars, gameVars, victoryVars,
                    invulnTimers, bossMounted, bossHealthProp, localBossHealth,
                    isDying, isDefeated, renderedIsDefeated, sinceAttack, sinceDying,
                    defeatTimer, defeatClosure >>

\* Boss: the defeatTimer of the dying effect.  It is set but never fires: the
\* commit that follows the final attack unmounts the Boss, and the cleanup of
\* the effect clears the timer; Next leaves the action out.
DefeatTimeout ==
    /\ UNCHANGED portalVars
    /\ defeatTimer = 0
    /\ defeatTimer' = NoTimer
    /\ isDefeated' = TRUE
    /\ updateBossHealth(0, defeatClosure)
    /\ UNCHANGED << rendered, playerVars, windowGameState, showVictory, victoryVars,
                    invulnTimers, bossMounted, bossHealthProp, localBossHealth,
                    isDescending, isDying, renderedIsDefeated, descentTimer,
                    sinceAttack, sinceDying, defeatClosure >>

----------------------------------------------------------------------------
\* A restart that leaves bossHealth as the encounter left it
RestartState_KeepsBossHealth ==
    [initialGameState EXCEPT !.isInvulnerable = TRUE,
                             !.bossHealth = gameState.bossHealth]

\* Game.handleRestartGame: the state it sets
RestartState ==
    [ weapon |-> null, armour |-> null, magic |-> null,
      position |-> [x |-> 0, z |-> 0],
      stage |-> 0,
      collectedBlocks |-> << >>,
      isInvulnerable |-> TRUE,
      bossHealth |-> initialBossHealth,
      bossDefeated |-> FALSE ]

\* Victory: setTimeout(() => setShowTypewriter(true), 6000)
TypewriterTimeout ==
    /\ UNCHANGED portalVars
    /\ typewriterTimer = 0
    /\ typewriterTimer' = NoTimer
    /\ showTypewriter' = TRUE
    /\ UNCHANGED << gameState, rendered, dirty, playerVars, gameVars, victoryMounted,
                    restartTimers, restarts, afterRestart, invulnTimers, bossVars >>

\* Victory.handleKeyPress for Space: setTimeout(() => onRestart(), 1000)
VictoryKeyPress ==
    /\ UNCHANGED portalVars
    /\ victoryMounted
    /\ showTypewriter
    /\ Len(restartTimers) < MaxRestartTimers
    /\ restarts < MaxRestarts
    /\ restarts' = restarts + 1
    /\ restartTimers' = Append(restartTimers, restartDelay)
    /\ UNCHANGED << gameState, rendered, dirty, playerVars, gameVars, showTypewriter,
                    typewriterTimer, victoryMounted, afterRestart, invulnTimers,
                    bossVars >>

\* Game.handleRestartGame, run by the timeout of Victory.handleKeyPress
handleRestartGame ==
    /\ UNCHANGED portalVars
    /\ restartTimers # << >>
    /\ Head(restartTimers) = 0
    /\ restartTimers' = Tail(restartTimers)
    /\ showVictory' = FALSE
    /\ currentBossHealthRef' = initialBossHealth
    /\ windowGameState' = RestartState
    /\ gameState' = RestartState
    /\ dirty' = TRUE
    /\ invulnTimers' = Append(invulnTimers, invulnDelay)
    /\ UNCHANGED << rendered, playerVars, showTypewriter, typewriterTimer,
                    victoryMounted, restarts, afterRestart, bossVars >>

\* The timeout of handleRestartGame.  Its first setGameState, of the closure's
\* gameState, is replaced in the same task by window.setGameState of
\* window.gameState with isInvulnerable false.
InvulnTimeout ==
    /\ UNCHANGED portalVars
    /\ invulnTimers # << >>
    /\ Head(invulnTimers) = 0
    /\ invulnTimers' = Tail(invulnTimers)
    /\ gameState' = [windowGameState EXCEPT !.isInvulnerable = FALSE]
    /\ dirty' = TRUE
    /\ UNCHANGED << rendered, playerVars, gameVars, victoryVars, bossVars >>

----------------------------------------------------------------------------
(* React commits the latest gameState: Game, Player, Boss and Victory render
   with it, and the passive effects of the commit run, the children's before
   Game's.                                                                  *)

\* The Boss rendered whenever all items are set, defeated or not
BossRendered_IgnoresDefeat(g) == hasAllItems(g)

\* Game: <Boss/> is rendered iff hasAllItems && !gameState.bossDefeated
BossRendered(g) == hasAllItems(g) /\ ~g.bossDefeated

\* Boss: the effect on [isDefeated] calls updateBossHealth(0)
DefeatedEffect(g) == bossMounted /\ BossRendered(g) /\ isDefeated /\ ~renderedIsDefeated

\* Game: currentBossHealthRef after Boss's effects and the effect on [gameState.bossHealth]
SyncedBossHealthRef(g) ==
    IF g.bossHealth # rendered.bossHealth THEN g.bossHealth
    ELSE IF DefeatedEffect(g) THEN 0
    ELSE currentBossHealthRef

\* The effect testing the bossHealth of the state instead of the ref
FixNeeded_ReadsState(g) == g.bossHealth <= 0 /\ ~g.bossDefeated

\* Game: the effect that sets bossDefeated when the ref is at 0
FixNeeded(g) == SyncedBossHealthRef(g) <= 0 /\ ~g.bossDefeated

\* Game: the fixedState of that effect
FixedState(g) == [g EXCEPT !.bossHealth = 0, !.bossDefeated = TRUE]

\* Boss: the state of a Boss that is not mounted / has just mounted
RenderBoss(g) ==
    IF ~BossRendered(g)
    THEN /\ bossMounted' = FALSE
         /\ bossHealthProp' = initialBossHealth
         /\ localBossHealth' = initialBossHealth
         /\ isDescending' = TRUE
         /\ isDying' = FALSE
         /\ isDefeated' = FALSE
         /\ renderedIsDefeated' = FALSE
         /\ descentTimer' = NoTimer
         /\ sinceAttack' = attackInterval
         /\ sinceDying' = dyingHold
         /\ defeatTimer' = NoTimer
         /\ defeatClosure' = initialGameState
    ELSE IF ~bossMounted
    THEN /\ bossMounted' = TRUE
         /\ bossHealthProp' = currentBossHealthRef
         /\ localBossHealth' = currentBossHealthRef
         /\ isDescending' = TRUE
         /\ isDying' = FALSE
         /\ isDefeated' = FALSE
         /\ renderedIsDefeated' = FALSE
         /\ descentTimer' = descentDuration
         /\ sinceAttack' = MaxElapsed
         /\ sinceDying' = dyingHold
         /\ defeatTimer' = NoTimer
         /\ defeatClosure' = initialGameState
    ELSE /\ bossHealthProp' = currentBossHealthRef
         /\ localBossHealth' = IF currentBossHealthRef # bossHealthProp
                               THEN currentBossHealthRef ELSE localBossHealth
         /\ renderedIsDefeated' = isDefeated
         /\ defeatTimer' = IF isDying /\ ~isDefeated
                           THEN (IF defeatTimer = NoTimer THEN defeatDelay ELSE defeatTimer)
                           ELSE NoTimer
         /\ defeatClosure' = IF isDying /\ ~isDefeated
                             THEN (IF defeatTimer = NoTimer THEN g ELSE defeatClosure)
                             ELSE initialGameState
         /\ UNCHANGED << bossMounted, isDescending, isDying, isDefeated, descentTimer,
                         sinceAttack, sinceDying >>

\* Victory mounts while showVictory; its typewriter timer starts at mount
RenderVictory ==
    /\ victoryMounted' = showVictory
    /\ showTypewriter' = (showVictory /\ victoryMounted /\ showTypewriter)
    /\ typewriterTimer' = IF ~showVictory THEN NoTimer
                          ELSE IF ~victoryMounted THEN typewriterDelay
                          ELSE typewriterTimer

Render ==
    /\ UNCHANGED portalVars
    /\ dirty
    /\ rendered' = gameState
    /\ weaponRef' = gameState.weapon
    /\ armourRef' = gameState.armour
    /\ magicRef' = gameState.magic
    /\ stageRef' = gameState.stage
    /\ positionRef' = gameState.position
    /\ RenderBoss(gameState)
    /\ RenderVictory
    /\ currentBossHealthRef' = SyncedBossHealthRef(gameState)
    /\ windowGameState' = gameState
    /\ gameState' = IF FixNeeded(gameState) THEN FixedState(gameState)
                    ELSE IF DefeatedEffect(gameState) THEN BossHealthState(0, gameState)
                    ELSE gameState
    /\ showVictory' = (showVictory \/ gameState.bossDefeated)
    /\ dirty' = \/ FixNeeded(gameState)
                \/ DefeatedEffect(gameState)
                \/ (gameState.bossDefeated /\ ~showVictory)
    /\ UNCHANGED << cooldownRef, cooldownTimer, currentPos, moves, restartTimers,
                    restarts, afterRestart, invulnTimers >>

----------------------------------------------------------------------------
\* A second passes: no render is pending and no timer is due.  A frame is far
\* shorter than a second, so every pending commit and every due timer comes
\* first.  The run is followed for MaxSecondsAfterRestart seconds after the
\* first Space press on the victory screen.
Elapse(t) == IF t > 0 THEN t - 1 ELSE t
ElapseAll(ts) == [i \in 1..Len(ts) |-> Elapse(ts[i])]
NoneDue(ts) == \A i \in 1..Len(ts) : ts[i] # 0

Tick ==
    /\ UNCHANGED portalVars
    /\ ~dirty
    /\ restarts = 0 \/ afterRestart < MaxSecondsAfterRestart
    /\ afterRestart' = IF restarts > 0 THEN afterRestart + 1 ELSE afterRestart
    /\ cooldownTimer # 0
    /\ typewriterTimer # 0
    /\ descentTimer # 0
    /\ defeatTimer # 0
    /\ NoneDue(restartTimers)
    /\ NoneDue(invulnTimers)
    /\ cooldownTimer' = Elapse(cooldownTimer)
    /\ typewriterTimer' = Elapse(typewriterTimer)
    /\ descentTimer' = Elapse(descentTimer)
    /\ defeatTimer' = Elapse(defeatTimer)
    /\ restartTimers' = ElapseAll(restartTimers)
    /\ invulnTimers' = ElapseAll(invulnTimers)
    /\ sinceAttack' = IF bossMounted THEN Min(sinceAttack + 1, MaxElapsed)
                      ELSE sinceAttack
    /\ sinceDying' = IF bossMounted THEN Min(sinceDying + 1, dyingHold)
                     ELSE sinceDying
    /\ UNCHANGED << gameState, rendered, dirty, weaponRef, armourRef, magicRef, stageRef,
                    positionRef, cooldownRef, currentPos, moves, gameVars,
                    showTypewriter, victoryMounted, restarts, bossMounted, bossHealthProp,
                    localBossHealth, isDescending, isDying, isDefeated,
                    renderedIsDefeated, defeatClosure >>

----------------------------------------------------------------------------
\* The player starts on the bridge at the origin, or just outside the reach of
\* the middle card of a stage after walking there.
StartPositions == { [x |-> 0, z |-> 180] }

\* Per-frame displacements of the keyboard integrator used in Spec
WalkVelocities == { << 0, 0 >>, << 0, speed >> }

InitAt(start) ==
    /\ gameState = [initialGameState EXCEPT !.position = start]
    /\ rendered = gameState
    /\ dirty = FALSE
    /\ weaponRef = null
    /\ armourRef = null
    /\ magicRef = null
    /\ stageRef = 0
    /\ positionRef = start
    /\ cooldownRef = FALSE
    /\ cooldownTimer = NoTimer
    /\ currentPos = start
    /\ moves = 0
    /\ currentBossHealthRef = initialBossHealth
    /\ windowGameState = gameState
    /\ showVictory = FALSE
    /\ showTypewriter = FALSE
    /\ typewriterTimer = NoTimer
    /\ victoryMounted = FALSE
    /\ restartTimers = << >>
    /\ restarts = 0
    /\ afterRestart = 0
    /\ invulnTimers = << >>
    /\ bossMounted = FALSE
    /\ bossHealthProp = initialBossHealth
    /\ localBossHealth = initialBossHealth
    /\ isDescending = TRUE
    /\ isDying = FALSE
    /\ isDefeated = FALSE
    /\ renderedIsDefeated = FALSE
    /\ descentTimer = NoTimer
    /\ sinceAttack = attackInterval
    /\ sinceDying = dyingHold
    /\ defeatTimer = NoTimer
    /\ defeatClosure = initialGameState

\* The number keys pressed in Spec (key - 1)
CardKeys == { 1 }

\* A URL without parameters, nothing navigated
InitLocation ==
    /\ locationSearch = << >>
    /\ locationHref = << >>
    /\ portalMessage = FALSE
    /\ navigations = 0
    /\ pageUnloaded = FALSE

Init == \E start \in StartPositions : InitAt(start) /\ InitLocation

Next ==
    \/ \E cardIndex \in CardKeys : HandleKeyDown(cardIndex)
    \/ CooldownTimeout
    \/ \E v \in WalkVelocities : updateMovement(v[1], v[2])
    \/ PlayerFrame
    \/ BossFrame
    \/ DescentTimeout
    \/ TypewriterTimeout
    \/ VictoryKeyPress
    \/ handleRestartGame
    \/ InvulnTimeout
    \/ Render
    \/ Tick

Spec == Init /\ [][Next]_vars

----------------------------------------------------------------------------
(* The encounter for every equipment triple: the state of the commit that
   mounts the Boss, after the keys '1'..'3' chose the three cards at the start
   of the bridge.                                                           *)
CardCoordinate(stage, type) ==
    LET i == CHOOSE k \in 1..3 : stageCardPositions[stage + 1][k].type = type
    IN [ x |-> stageCardPositions[stage + 1][i].x,
         z |-> stageCardPositions[stage + 1][i].z ]

EquippedState(w, a, m) ==
    [ weapon |-> w, armour |-> a, magic |-> m,
      position |-> [x |-> 0, z |-> 0],
      stage |-> 2,
      collectedBlocks |-> << CardCoordinate(0, w), CardCoordinate(1, a),
                             CardCoordinate(2, m) >>,
      isInvulnerable |-> FALSE,
      bossHealth |-> initialBossHealth,
      bossDefeated |-> FALSE ]

InitBoss ==
    \E w \in WeaponType, a \in ArmourType, m \in MagicType :
        /\ gameState = EquippedState(w, a, m)
        /\ rendered = gameState
        /\ dirty = FALSE
        /\ weaponRef = w
        /\ armourRef = a
        /\ magicRef = m
        /\ stageRef = 2
        /\ positionRef = [x |-> 0, z |-> 0]
        /\ cooldownRef = TRUE
        /\ cooldownTimer = cooldownDelay
        /\ currentPos = [x |-> 0, z |-> 0]
        /\ moves = 0
        /\ currentBossHealthRef = initialBossHealth
        /\ windowGameState = gameState
        /\ showVictory = FALSE
        /\ showTypewriter = FALSE
        /\ typewriterTimer = NoTimer
        /\ victoryMounted = FALSE
        /\ restartTimers = << >>
        /\ restarts = 0
        /\ afterRestart = 0
        /\ invulnTimers = << >>
        /\ bossMounted = TRUE
        /\ bossHealthProp = initialBossHealth
        /\ localBossHealth = initialBossHealth
        /\ isDescending = TRUE
        /\ isDying = FALSE
        /\ isDefeated = FALSE
        /\ renderedIsDefeated = FALSE
        /\ descentTimer = descentDuration
        /\ sinceAttack = MaxElapsed
        /\ sinceDying = dyingHold
        /\ defeatTimer = NoTimer
        /\ defeatClosure = initialGameState
        /\ locationSearch = << >>
        /\ locationHref = << >>
        /\ portalMessage = FALSE
        /\ navigations = 0
        /\ pageUnloaded = FALSE

NextBoss ==
    \/ CooldownTimeout
    \/ updateMovement(0, 0)
    \/ BossFrame
    \/ DescentTimeout
    \/ Render
    \/ Tick

SpecBoss == InitBoss /\ [][NextBoss]_vars

\* The encounter under fair scheduling: React commits a pending update, the
\* useFrame callback of the Boss runs in every frame and a due timeout is
\* delivered (weak fairness); the clock advances however often movement
\* ticks ask for another render (strong fairness).
SpecBossFair ==
    /\ SpecBoss
    /\ WF_vars(Render)
    /\ WF_vars(BossFrame)
    /\ WF_vars(DescentTimeout)
    /\ WF_vars(CooldownTimeout)
    /\ SF_vars(Tick)

----------------------------------------------------------------------------
(* The movement of the player near the ends of the bridge: every velocity of
   the keyboard integrator and every joystick step, from positions next to the
   clamps.                                                                  *)
MoveStarts ==
    { [x |-> 0, z |-> 0],
      [x |-> XClamp - 1, z |-> ZMax - 1],
      [x |-> 1 - XClamp, z |-> ZMin + 1] }

\* speed along one axis, speed / sqrt(2) (rounded) along both
diagonalSpeed == 2
Velocities ==
    { << vx, vz >> \in {-speed, 0, speed} \X {-speed, 0, speed} : vx = 0 \/ vz = 0 }
        \cup ({-diagonalSpeed, diagonalSpeed} \X {-diagonalSpeed, diagonalSpeed})

JoystickSteps == ({-1, 0, 1} \X {-1, 0, 1}) \ { << 0, 0 >> }

InitMove == \E start \in MoveStarts : InitAt(start) /\ InitLocation

NextMove ==
    \/ \E v \in Velocities : updateMovement(v[1], v[2])
    \/ \E d \in JoystickSteps : handleMobileMove(d[1], d[2])
    \/ PlayerFrame
    \/ Render

SpecMove == InitMove /\ [][NextMove]_vars

----------------------------------------------------------------------------
(* PortalManager.  A URL is a sequence of tokens: the separators "?", "&"
   and "=", and pieces of text.  window.location.search is such a sequence
   as the address bar holds it, percent-encoded or not; URLSearchParams
   decodes it into pairs of key and value and encodes them again when it
   is turned into a string.                                                *)

\* The most parameters a URL of the model has
MaxParams == 3

\* The assignments to window.location.href that are followed
MaxNavigations == 2

\* Portal positions and the half depth of the expanded collision box, in
\* units of 0.05: the tube of the torus (0.25) and expandByScalar(1.5)
startPortalZ == -200
exitPortalZ == 1100
portalReach == 35

\* No URL has been assigned to window.location.href
NoNavigation == << >>

\* String.prototype.startsWith for a prefix that is one token
startsWith(s, prefix) == Len(s) > 0 /\ s[1] = prefix

\* URLSearchParams: a piece of text of the query string, decoded
decodeToken(t) ==
    CASE t = "+" -> " "
      [] t = "%20" -> " "
      [] t = "%26" -> "&"
      [] t = "https%3A%2F%2F" -> "https://"
      [] t = "http%3A%2F%2F" -> "http://"
      [] t = "game.host%2Fplay" -> "game.host/play"
      [] OTHER -> t

\* An encoder that escapes nothing
encodeToken_Raw(t) == t

\* URLSearchParams.toString: a piece of text of a key or value, encoded
encodeToken(t) ==
    CASE t = " " -> "+"
      [] t = "&" -> "%26"
      [] t = "https://" -> "https%3A%2F%2F"
      [] t = "http://" -> "http%3A%2F%2F"
      [] t = "game.host/play" -> "game.host%2Fplay"
      [] OTHER -> t

decode(s) == [i \in 1..Len(s) |-> decodeToken(s[i])]
encode(s) == [i \in 1..Len(s) |-> encodeToken(s[i])]

\* The pieces of s between the occurrences of the separator
RECURSIVE SplitOn(_, _)
SplitOn(s, sep) ==
    IF s = << >> THEN << << >> >>
    ELSE LET rest == SplitOn(Tail(s), sep)
         IN IF Head(s) = sep THEN << << >> >> \o rest
            ELSE << << Head(s) >> \o Head(rest) >> \o Tail(rest)

\* The position of the first "=" of a piece, 0 if it has none
FirstEquals(seg) ==
    IF \E i \in 1..Len(seg) : seg[i] = "="
    THEN CHOOSE i \in 1..Len(seg) : seg[i] = "=" /\ \A j \in 1..(i - 1) : seg[j] # "="
    ELSE 0

\* One name=value piece as a decoded pair
ParsePair(seg) ==
    LET i == FirstEquals(seg)
    IN IF i = 0 THEN [key |-> decode(seg), value |-> << >>]
       ELSE [key |-> decode(SubSeq(seg, 1, i - 1)),
             value |-> decode(SubSeq(seg, i + 1, Len(seg)))]

NonEmpty(seg) == seg # << >>

\* new URLSearchParams(search): the decoded pairs, in order
URLSearchParams(search) ==
    LET query == IF startsWith(search, "?") THEN Tail(search) ELSE search
        pieces == SelectSeq(SplitOn(query, "&"), NonEmpty)
    IN [i \in 1..Len(pieces) |-> ParsePair(pieces[i])]

\* A get that returns the value of the first pair, whatever its key
Get_IgnoresKey(params, key) == IF params # << >> THEN params[1].value ELSE << >>

\* URLSearchParams.get: the value of the first pair with the key; a missing
\* key gives null, which `if (refUrl)` treats as it treats the empty string
Get(params, key) ==
    IF \E i \in 1..Len(params) : params[i].key = key
    THEN params[CHOOSE i \in 1..Len(params) :
                    params[i].key = key /\ \A j \in 1..(i - 1) : params[j].key # key].value
    ELSE << >>

\* URLSearchParams.has
Has(params, key) == \E i \in 1..Len(params) : params[i].key = key

\* URLSearchParams.toString
RECURSIVE toString(_)
toString(params) ==
    IF params = << >> THEN << >>
    ELSE encode(Head(params).key) \o << "=" >> \o encode(Head(params).value)
            \o (IF Len(params) > 1 THEN << "&" >> \o toString(Tail(params)) ELSE << >>)

NotRef(p) == p.key # << "ref" >>

\* url + (paramString ? "?" + paramString : "")
WithQuery(url, params) ==
    url \o (IF toString(params) # << >> THEN << "?" >> \o toString(params) ELSE << >>)

\* PortalManager.handleStartPortalEntry
handleStartPortalEntry ==
    LET urlParams == URLSearchParams(locationSearch)
        refUrl == Get(urlParams, << "ref" >>)
        url == IF ~startsWith(refUrl, "http://") /\ ~startsWith(refUrl, "https://")
               THEN << "https://" >> \o refUrl
               ELSE refUrl
        newParams == SelectSeq(urlParams, NotRef)
    IN IF refUrl # << >>
       THEN /\ locationHref' = WithQuery(url, newParams)
            /\ navigations' = navigations + 1
            /\ UNCHANGED portalMessage
       ELSE /\ portalMessage' = TRUE
            /\ UNCHANGED << locationHref, navigations >>

\* The random guest names of handleExitPortalEntry
GuestNames == { "player_7", "player_42" }

\* A loop that copies every current parameter
Passthrough_All(newParams, currentParams) == newParams \o currentParams

\* The loop of handleExitPortalEntry that copies the current parameters
RECURSIVE Passthrough(_, _)
Passthrough(newParams, currentParams) ==
    IF currentParams = << >> THEN newParams
    ELSE LET p == Head(currentParams)
         IN IF ~Has(newParams, p.key) /\ p.key # << "portal" >>
            THEN Passthrough(Append(newParams, p), Tail(currentParams))
            ELSE Passthrough(newParams, Tail(currentParams))

\* Bridge: new PortalManager(scene, camera, {}), a socket without an id
socketId == null

\* PortalManager.handleExitPortalEntry, `guest` the random guest name
handleExitPortalEntry(guest) ==
    LET username == IF socketId # null THEN socketId ELSE guest
        essential == << [key |-> << "portal" >>, value |-> << "true" >>],
                        [key |-> << "username" >>, value |-> << username >>],
                        [key |-> << "color" >>, value |-> << "white" >>],
                        [key |-> << "ref" >>, value |-> << "game.host/play" >>],
                        [key |-> << "speed" >>, value |-> << "3" >>] >>
        newParams == Passthrough(essential, URLSearchParams(locationSearch))
    IN /\ locationHref' = WithQuery(<< "http://", "portal.pieter.com" >>, newParams)
       /\ navigations' = navigations + 1
       /\ UNCHANGED portalMessage

\* The expanded box of a portal contains the player: x within the clamp
\* and y = 1 are always inside, z decides
InPortal(pos, portalZ) == Abs(pos.z - portalZ) <= portalReach

\* PortalManager.checkPortalCollisions, called by Bridge's useFrame in every
\* frame with the position of the last render, as long as the document lives
checkPortalCollisions ==
    /\ ~pageUnloaded
    /\ navigations < MaxNavigations
    /\ IF InPortal(rendered.position, startPortalZ)
       THEN handleStartPortalEntry
       ELSE IF InPortal(rendered.position, exitPortalZ)
       THEN \E guest \in GuestNames : handleExitPortalEntry(guest)
       ELSE UNCHANGED << locationHref, portalMessage, navigations >>
    /\ UNCHANGED << gameState, rendered, dirty, playerVars, gameVars, victoryVars,
                    invulnTimers, bossVars, locationSearch, pageUnloaded >>

\* The browser unloads the document some frames after window.location.href
\* was assigned; no callback of the page runs after that
Unload ==
    /\ locationHref # NoNavigation
    /\ ~pageUnloaded
    /\ pageUnloaded' = TRUE
    /\ UNCHANGED << gameState, rendered, dirty, playerVars, gameVars, victoryVars,
                    invulnTimers, bossVars, locationSearch, locationHref,
                    portalMessage, navigations >>

\* showNoReturnMessage: the timeouts that fade the notice out and remove it
\* from the document, 3.5 s after it was shown
MessageTimeout ==
    /\ ~pageUnloaded
    /\ portalMessage
    /\ portalMessage' = FALSE
    /\ UNCHANGED << gameState, rendered, dirty, playerVars, gameVars, victoryVars,
                    invulnTimers, bossVars, locationSearch, locationHref,
                    navigations, pageUnloaded >>

\* The URLs of the model, as typed in the address bar: a ref with a site,
\* with or without a scheme, encoded or not, or without a value, and other
\* parameters with text that needs encoding
RefValues ==
    { << >>,
      << "a.com" >>,
      << "http://", "a.com" >>,
      << "https%3A%2F%2F", "a.com" >>,
      << "HTTP://", "a.com" >> }
OtherKeys == { "user", "lang", "portal" }
OtherValues ==
    { << >>,
      << "x", "+", "y" >>,
      << "x", "%26", "y" >> }

\* name=value, and the name alone for a ref
SearchPieces ==
    { << "ref", "=" >> \o v : v \in RefValues }
        \cup { << "ref" >> }
        \cup { << k, "=" >> \o v : k \in OtherKeys, v \in OtherValues }

RECURSIVE Searches(_)
Searches(n) ==
    IF n = 0 THEN { << >> }
    ELSE Searches(n - 1)
            \cup { << "?" >> \o piece : piece \in SearchPieces }
            \cup { s \o << "&" >> \o piece : s \in Searches(n - 1) \ { << >> },
                                            piece \in SearchPieces }

\* The player inside the entry portal, at the origin and inside the exit portal
PortalStarts ==
    { [x |-> 0, z |-> startPortalZ], [x |-> 0, z |-> 0], [x |-> 0, z |-> exitPortalZ] }

InitPortal ==
    \E start \in PortalStarts, search \in Searches(MaxParams) :
        /\ InitAt(start)
        /\ locationSearch = search
        /\ locationHref = NoNavigation
        /\ portalMessage = FALSE
        /\ navigations = 0
        /\ pageUnloaded = FALSE

NextPortal ==
    \/ checkPortalCollisions
    \/ MessageTimeout
    \/ Unload

SpecPortal == InitPortal /\ [][NextPortal]_vars

----------------------------------------------------------------------------
(* The claims of the specification, stated over the model.                 *)

\* The number of equipment slots of g that are set
SlotCount(g) ==
    (IF g.weapon # null THEN 1 ELSE 0) + (IF g.armour # null THEN 1 ELSE 0)
        + (IF g.magic # null THEN 1 ELSE 0)

\* C1: in every reachable GameState stage equals the number of non-null slots
\* among weapon, armour and magic; stage is 3 once all three are set.
C1_StageCountsSlots == gameState.stage = SlotCount(gameState)

\* C1, the state that refutes it: all three slots set and stage still 2.
C1_AllSlotsAtStageTwo == hasAllItems(gameState) /\ gameState.stage = 2

\* No coordinate occurs twice in blocks
NoDuplicates(blocks) ==
    \A i, j \in 1..Len(blocks) :
        (blocks[i].x = blocks[j].x /\ blocks[i].z = blocks[j].z) => i = j

\* C2: collectedBlocks never contains the same card coordinate more than once,
\* whatever the sequence of proximity pickups and force-selects.
C2_NoDuplicateBlocks == NoDuplicates(gameState.collectedBlocks)

\* C2, the state that refutes it: the magic card selected twice.
C2_MagicCardTwice ==
    /\ Len(gameState.collectedBlocks) = 4
    /\ gameState.collectedBlocks[3] = gameState.collectedBlocks[4]

\* C3: in every reachable GameState bossDefeated is true iff bossHealth is 0,
\* and bossHealth is never negative.
C3_DefeatedIffZero ==
    /\ gameState.bossDefeated <=> gameState.bossHealth = 0
    /\ gameState.bossHealth >= 0
    /\ rendered.bossDefeated <=> rendered.bossHealth = 0
    /\ rendered.bossHealth >= 0

\* C3, its case: an attack has taken the boss to 0 and the state says defeated.
C3_BossDefeatedAtZero ==
    /\ gameState.bossDefeated
    /\ gameState.bossHealth = 0
    /\ hasAllItems(gameState)
    /\ localBossHealth = 0

\* p, in units of 0.05, lies within x in [-1.9, 1.9] and z in [-20, 300]
WithinClamps(p) ==
    /\ -190 <= 5 * p.x /\ 5 * p.x <= 190
    /\ -2000 <= 5 * p.z /\ 5 * p.z <= 30000

PickupAttempt == PlayerFrame \/ \E cardIndex \in 0..2 : HandleKeyDown(cardIndex)

\* The step selects a card: only applyCardSelection raises the cooldown flag
PickupSucceeds == PickupAttempt /\ ~cooldownRef /\ cooldownRef'

\* The effect C5 gives the pickup of `card` at stage s, from state g to state h
PickupEffect(s, card, g, h) ==
    /\ h.weapon = IF s = 0 THEN card.type ELSE g.weapon
    /\ h.armour = IF s = 1 THEN card.type ELSE g.armour
    /\ h.magic = IF s = 2 THEN card.type ELSE g.magic
    /\ h.stage = IF s < 2 THEN s + 1 ELSE s
    /\ h.collectedBlocks = Append(g.collectedBlocks, [x |-> card.x, z |-> card.z])
    /\ h.bossHealth = g.bossHealth
    /\ h.bossDefeated = g.bossDefeated

\* C5: a successful pickup of a card of the current stage s replaces GameState
\* once: the slot of stage s is the card's variant, the card's coordinate is
\* appended to collectedBlocks, stage advances by 1 (not at the magic stage),
\* the other slots, bossHealth and bossDefeated are unchanged.
C5_PickupEffect ==
    [][PickupSucceeds =>
          /\ gameState.stage \in 0..2
          /\ \E i \in 1..3 :
                PickupEffect(gameState.stage, stageCardPositions[gameState.stage + 1][i],
                             gameState, gameState')]_vars

\* C5, its example: the middle weapon card at (0, 10) gives fist and stage 1.
C5_FistPickedUp ==
    /\ gameState.weapon = "fist"
    /\ gameState.stage = 1
    /\ gameState.collectedBlocks = << [x |-> 0, z |-> 200] >>
    /\ cooldownRef

\* The fields a pickup writes are the same in g and h
SameSelection(g, h) ==
    /\ h.weapon = g.weapon
    /\ h.armour = g.armour
    /\ h.magic = g.magic
    /\ h.stage = g.stage
    /\ h.collectedBlocks = g.collectedBlocks

\* C6: during the second that follows a successful pickup no proximity pickup
\* and no force-select changes equipment, stage or collectedBlocks.
C6_NoPickupInCooldown ==
    [][(cooldownTimer > 0 /\ PickupAttempt) => SameSelection(gameState, gameState')]_vars

\* C6, its case: within the second after the fist card was picked up by
\* proximity the player still overlaps it.
C6_OverlapInCooldown ==
    /\ cooldownTimer > 0
    /\ cooldownRef
    /\ gameState.weapon = "fist"
    /\ Collides(currentPos, stageCardPositions[1][2])

\* C7: once all three equipment slots are filled, no proximity pickup and no
\* force-select changes weapon, armour, magic, stage or collectedBlocks.
C7_NoPickupWhenEquipped ==
    [][(hasAllItems(gameState) /\ PickupAttempt) => SameSelection(gameState, gameState')]_vars

\* C8: while isInvulnerable is true neither a proximity overlap nor a
\* force-select changes equipment, stage or collectedBlocks.
C8_NoPickupWhenInvulnerable ==
    [][(gameState.isInvulnerable /\ rendered.isInvulnerable /\ PickupAttempt)
          => SameSelection(gameState, gameState')]_vars

\* C8, the state that refutes it: a card selected during the invulnerability
\* that follows a restart.
C8_SelectedWhileInvulnerable ==
    /\ gameState.isInvulnerable
    /\ gameState.weapon = "fist"
    /\ restarts > 0

\* A step of Boss's useFrame that resolves an attack
AttackStep == bossMounted /\ ~isDefeated /\ AttackDue /\ BossFrame

\* The damage C9 gives; the factors are in hundredths
ClaimedWeaponBonus(w) == CASE w = "axe" -> 3 [] w = "sword" -> 2 [] w = "fist" -> 1
ClaimedArmourBonus(a) == CASE a = "knowledge" -> 3 [] a = "steel" -> 2 [] a = "gold" -> 1
ClaimedFactor(m) == CASE m = "fire" -> 150 [] m = "love" -> 130 [] m = "water" -> 120
ClaimedDamage(w, a, m) ==
    ((10 + ClaimedWeaponBonus(w) + ClaimedArmourBonus(a)) * ClaimedFactor(m) + 50) \div 100

\* C9: the damage of a hit is round((10 + weapon bonus + armour bonus) * magic
\* factor) for each of the 27 equipment triples, 24 for axe, knowledge and fire,
\* and an attack takes exactly that much (at most what is left) from the boss.
C9_DamageFormula ==
    [][AttackStep =>
          /\ calculateDamage(rendered)
                = ClaimedDamage(rendered.weapon, rendered.armour, rendered.magic)
          /\ localBossHealth - localBossHealth'
                = Min(localBossHealth,
                      ClaimedDamage(rendered.weapon, rendered.armour, rendered.magic))
          /\ (rendered.weapon = "axe" /\ rendered.armour = "knowledge"
                /\ rendered.magic = "fire") => calculateDamage(rendered) = 24]_vars

\* C9, its example: axe, knowledge and fire have hit the boss once.
C9_AxeKnowledgeFireHit ==
    /\ rendered.weapon = "axe"
    /\ rendered.armour = "knowledge"
    /\ rendered.magic = "fire"
    /\ localBossHealth = 76
    /\ sinceAttack = 0

\* C10: each resolved attack replaces GameState with bossHealth = max(0,
\* previous bossHealth - damage) and bossDefeated = (new bossHealth <= 0).
C10_AttackEffect ==
    [][AttackStep =>
          /\ gameState'.bossHealth
                = Max(0, gameState.bossHealth - calculateDamage(gameState))
          /\ gameState'.bossDefeated = (gameState'.bossHealth <= 0)]_vars

\* C10, the state that refutes it: the first attack's write was replaced by a
\* movement write of the older snapshot, and the second attack has taken
\* bossHealth from 100 to 66 with a damage of 17.
C10_SecondAttackFromStaleHealth ==
    /\ gameState.bossHealth = 66
    /\ rendered.bossHealth = 100
    /\ gameState.collectedBlocks = rendered.collectedBlocks
    /\ NoDuplicates(gameState.collectedBlocks)
    /\ Len(gameState.collectedBlocks) = 3
    /\ calculateDamage(gameState) = 17
    /\ sinceAttack = 0

\* C11: a damage application happens only in a state where weapon, armour
\* and magic are all set and bossDefeated is false; once bossDefeated is true
\* (the dying hold included) no frame of the Boss changes bossHealth; the
\* Boss, which alone applies damage, is mounted only in such a state.
C11_AttackOnlyWhenActive ==
    [][/\ bossMounted' => hasAllItems(rendered') /\ ~rendered'.bossDefeated
       /\ AttackStep => /\ hasAllItems(gameState) /\ ~gameState.bossDefeated
                        /\ hasAllItems(rendered) /\ ~rendered.bossDefeated
       /\ (gameState.bossDefeated /\ BossFrame)
             => /\ gameState'.bossHealth = gameState.bossHealth
                /\ localBossHealth' = localBossHealth]_vars

\* C11, its case: the final attack has set bossDefeated and the Boss, still
\* mounted, is in its dying hold.
C11_DyingHold ==
    /\ bossMounted
    /\ isDying
    /\ ~isDescending
    /\ gameState.bossDefeated
    /\ gameState.bossHealth = 0


\* C12: bossHealth is 100 in the state where the third slot becomes set,
\* and from then until bossDefeated is true no step increases bossHealth.
C12_BossHealthNeverIncreases ==
    [][/\ (~hasAllItems(gameState) /\ hasAllItems(gameState'))
            => gameState'.bossHealth = initialBossHealth
       /\ (hasAllItems(gameState) /\ ~gameState.bossDefeated)
            => gameState'.bossHealth <= gameState.bossHealth]_vars

\* C12, its case: an attack has lowered the stored bossHealth while the
\* Player's last render still holds the earlier value.
C12_StaleHealthInSnapshot ==
    /\ bossMounted
    /\ hasAllItems(gameState)
    /\ ~gameState.bossDefeated
    /\ gameState.bossHealth < rendered.bossHealth


\* C13: once weapon, armour and magic are set and the game is not reset, fair
\* ticking leads to bossDefeated, whatever the equipment.
C13_BossEventuallyDefeated ==
    (hasAllItems(gameState) /\ ~gameState.bossDefeated) ~> gameState.bossDefeated

\* C13, its case: the encounter has run and the stored state has bossDefeated
\* true with bossHealth 0.
C13_EncounterOver ==
    /\ hasAllItems(gameState)
    /\ gameState.bossDefeated
    /\ gameState.bossHealth = 0
    /\ showVictory


\* C14: the victory screen is triggered only after the Boss has held its
\* dying state for dyingHold seconds, not at the moment bossDefeated becomes
\* true.
C14_VictoryAfterDyingHold ==
    [][(~showVictory /\ showVictory')
          => \/ bossMounted /\ isDefeated
             \/ bossMounted /\ isDying /\ sinceDying >= dyingHold]_vars

\* C14, its case: the commit that follows the final attack has triggered the
\* victory screen and removed the Boss; Victory has not rendered yet.
C14_VictoryTriggered ==
    /\ showVictory
    /\ ~victoryMounted
    /\ ~bossMounted
    /\ gameState.bossDefeated


\* C15: the step that takes bossHealth to 0 sets bossDefeated
C15_DefeatedInSameStep ==
    (gameState.bossHealth > 0 /\ gameState'.bossHealth = 0) => gameState'.bossDefeated

\* C15: the Boss is marked defeated only from its dying state and only after
\* the delay of the death sequence
C15_SignalAfterDelay ==
    (~isDefeated /\ isDefeated') => (bossMounted /\ isDying /\ sinceDying >= dyingHold)

\* C15: a dying Boss is not removed before it was marked defeated
C15_SignalBeforeRemoval ==
    (bossMounted /\ isDying /\ ~bossMounted') => isDefeated

\* C15: when bossHealth is driven to 0 bossDefeated becomes true in the same
\* step, the Boss passes from dying to defeated, and the defeat-complete
\* signal fires once per encounter, after the delay of the death sequence.
C15_DefeatSequence ==
    [][C15_DefeatedInSameStep /\ C15_SignalAfterDelay /\ C15_SignalBeforeRemoval]_vars

\* C15, its case: the final attack has taken bossHealth to 0 and the Boss is
\* dying, not yet marked defeated, with its commit pending.
C15_FinalAttackDone ==
    /\ bossMounted
    /\ isDying
    /\ ~isDefeated
    /\ localBossHealth = 0
    /\ currentBossHealthRef = 0
    /\ dirty


\* C16: immediately after the restart action weapon, armour and magic are
\* null, stage is 0, collectedBlocks is empty, position is (0, 0), bossHealth
\* is 100 and bossDefeated is false: the state of a fresh session, the
\* invulnerable flag apart.
C16_RestartGivesFreshState ==
    [][handleRestartGame
          => /\ gameState'.weapon = null
             /\ gameState'.armour = null
             /\ gameState'.magic = null
             /\ gameState'.stage = 0
             /\ gameState'.collectedBlocks = << >>
             /\ gameState'.position = [x |-> 0, z |-> 0]
             /\ gameState'.bossHealth = 100
             /\ ~gameState'.bossDefeated
             /\ [gameState' EXCEPT !.isInvulnerable = FALSE] = initialGameState]_vars

\* C16, its case: the restart has just run after a victory; the render of the
\* reset state is pending and the last render still shows the defeated Boss.
C16_JustRestarted ==
    /\ restarts > 0
    /\ invulnTimers # << >>
    /\ dirty
    /\ gameState.stage = 0
    /\ gameState.isInvulnerable
    /\ rendered.bossDefeated
    /\ hasAllItems(rendered)


\* The restart has run: its timer was set by the Space key and has fired
ResetDone == restarts > 0 /\ restartTimers = << >>

\* The fields a reset clears
ResetFields(g) ==
    << g.weapon, g.armour, g.magic, g.stage, g.collectedBlocks,
       g.bossHealth, g.bossDefeated >>

\* A deferred callback fires: the cooldown expiry, the invulnerability
\* release, a movement tick, or another restart timer
DeferredCallback ==
    \/ CooldownTimeout
    \/ InvulnTimeout
    \/ handleRestartGame
    \/ \E v \in WalkVelocities : updateMovement(v[1], v[2])

\* C17: after a full reset no deferred callback (cooldown expiry,
\* invulnerability release, repeated restart timer, pending movement tick)
\* brings back equipment, stage, collectedBlocks, bossHealth or bossDefeated:
\* fired on the reset state, it leaves these fields as the reset set them.
C17_NoResurrectionAfterReset ==
    [][(/\ ResetDone
        /\ ResetFields(gameState) = ResetFields(initialGameState)
        /\ DeferredCallback)
          => ResetFields(gameState') = ResetFields(initialGameState)]_vars

\* C17, its case: after the restart the stored state again carries the
\* equipment and the defeated Boss of the finished session.
C17_PreResetStateBack ==
    /\ ResetDone
    /\ hasAllItems(gameState)
    /\ gameState.bossDefeated
    /\ gameState.bossHealth = 0


\* The frame of the Player takes its fell-off branch
FellOffStep ==
    /\ PlayerFrame
    /\ ~(cooldownRef \/ rendered.isInvulnerable)
    /\ ~(/\ stageRef < Len(stageCardPositions)
         /\ FirstHit(stageRef, LerpedPos, rendered.collectedBlocks) # 0)
    /\ Abs(LerpedPos.x) > FallOffX

\* C18: whenever the fall-off condition triggers, GameState is replaced so
\* that weapon, armour and magic are null, stage is 0, collectedBlocks is empty
\* and position is (0, 0), while bossHealth is left as it was.
C18_FallOffResets ==
    [][FellOffStep
          => /\ gameState'.weapon = null
             /\ gameState'.armour = null
             /\ gameState'.magic = null
             /\ gameState'.stage = 0
             /\ gameState'.collectedBlocks = << >>
             /\ gameState'.position = [x |-> 0, z |-> 0]
             /\ gameState'.bossHealth = gameState.bossHealth]_vars

\* C18, its case: the mesh of the Player is beyond the fell-off threshold
C18_BeyondThreshold == Abs(currentPos.x) > FallOffX \/ Abs(LerpedPos.x) > FallOffX


\* C19: once bossDefeated is true, input no longer changes position; position
\* changes only through the restart after the victory, which puts the player
\* at (0, 0).
C19_NoMovementAfterDefeat ==
    [][(gameState.bossDefeated /\ gameState'.position # gameState.position)
          => (handleRestartGame /\ gameState'.position = [x |-> 0, z |-> 0])]_vars

\* C19, its case: the Boss is defeated, the victory screen is up, and the
\* player stands somewhere else than where the last render saw it.
C19_MovedAfterDefeat ==
    /\ gameState.bossDefeated
    /\ rendered.bossDefeated
    /\ victoryMounted
    /\ gameState.position # rendered.position


\* The parameters of the current URL, the value of its ref parameter and the
\* parameters other than ref
CurrentParams == URLSearchParams(locationSearch)
RefValue == Get(CurrentParams, << "ref" >>)
OtherParams == SelectSeq(CurrentParams, NotRef)

\* The ref value, with https:// in front exactly when it starts with neither
\* http:// nor https://
ClaimedTarget ==
    IF RefValue[1] \notin { "http://", "https://" }
    THEN << "https://" >> \o RefValue
    ELSE RefValue

\* href is the target followed by a query string that carries the other
\* parameters, keys and values in order, and no ref
CarriesOtherParams(href) ==
    /\ Len(href) >= Len(ClaimedTarget)
    /\ SubSeq(href, 1, Len(ClaimedTarget)) = ClaimedTarget
    /\ LET query == SubSeq(href, Len(ClaimedTarget) + 1, Len(href))
       IN /\ (query = << >>) <=> (OtherParams = << >>)
          /\ query # << >> => query[1] = "?"
          /\ URLSearchParams(query) = OtherParams
          /\ ~Has(URLSearchParams(query), << "ref" >>)

C21_NoRefShowsNotice ==
    [][(/\ checkPortalCollisions
        /\ InPortal(rendered.position, startPortalZ)
        /\ (~Has(CurrentParams, << "ref" >>) \/ RefValue = << >>))
          => /\ locationHref' = NoNavigation
             /\ locationHref' = locationHref
             /\ portalMessage']_vars

\* C21, its case: the URL has parameters but no ref, the player stands in the
\* entry portal, and the notice is up.
C21_NoticeShown ==
    /\ InPortal(rendered.position, startPortalZ)
    /\ ~Has(CurrentParams, << "ref" >>)
    /\ Len(CurrentParams) >= 1
    /\ CurrentParams[1].value # << >>
    /\ portalMessage
    /\ locationHref = NoNavigation


\* The keys handleExitPortalEntry sets itself
EssentialKeys ==
    { << "portal" >>, << "username" >>, << "color" >>, << "ref" >>, << "speed" >> }

\* The position of the first parameter with the key
FirstWithKey(params, key) ==
    CHOOSE i \in 1..Len(params) :
        params[i].key = key /\ \A j \in 1..(i - 1) : params[j].key # key

\* href is the fixed destination with portal=true, a username, color=white,
\* ref = host+path and speed=3, followed by the current parameters whose key
\* is not yet in the set, in their order
OutboundUrl(href) ==
    LET R == URLSearchParams(SubSeq(href, 3, Len(href)))
    IN /\ Len(href) > 3
       /\ SubSeq(href, 1, 3) = << "http://", "portal.pieter.com", "?" >>
       /\ Len(R) >= 5
       /\ R[1] = [key |-> << "portal" >>, value |-> << "true" >>]
       /\ R[2].key = << "username" >>
       /\ IF socketId # null THEN R[2].value = << socketId >>
          ELSE \E g \in GuestNames : R[2].value = << g >>
       /\ R[3] = [key |-> << "color" >>, value |-> << "white" >>]
       /\ R[4] = [key |-> << "ref" >>, value |-> << "game.host/play" >>]
       /\ R[5] = [key |-> << "speed" >>, value |-> << "3" >>]
       /\ \A i, j \in 1..Len(R) : i # j => R[i].key # R[j].key
       /\ \A i \in 6..Len(R) : \E j \in 1..Len(CurrentParams) : CurrentParams[j] = R[i]
       /\ \A j \in 1..Len(CurrentParams) :
            CurrentParams[j].key \notin EssentialKeys
                => \E i \in 6..Len(R) :
                      /\ R[i].key = CurrentParams[j].key
                      /\ R[i].value = Get(CurrentParams, CurrentParams[j].key)
       /\ \A i, j \in 6..Len(R) :
            i < j => FirstWithKey(CurrentParams, R[i].key)
                        < FirstWithKey(CurrentParams, R[j].key)

\* C22: on exit-portal entry the outbound URL is the fixed destination plus
\* portal=true, a username (the session id if connected, else a generated
\* guest id), color=white, ref equal to the host+path of the current page
\* (also when the current URL has no ref), speed=3, and every other current
\* parameter whose key is not already in the set.
C22_ExitPortalUrl ==
    [][(/\ checkPortalCollisions
        /\ ~InPortal(rendered.position, startPortalZ)
        /\ InPortal(rendered.position, exitPortalZ))
          => OutboundUrl(locationHref')]_vars

\* C22, its case: the exit portal has navigated from a URL that had a ref of
\* its own, a portal marker and two other parameters.
C22_LeftThroughExit ==
    /\ InPortal(rendered.position, exitPortalZ)
    /\ locationHref # NoNavigation
    /\ Len(CurrentParams) = 3
    /\ \/ Has(CurrentParams, << "ref" >>)
       \/ Has(CurrentParams, << "portal" >>)
    /\ Has(CurrentParams, << "user" >>)
    /\ Has(CurrentParams, << "lang" >>)
    /\ FirstWithKey(CurrentParams, << "lang" >>) < FirstWithKey(CurrentParams, << "user" >>)


\* C23: while the player stays inside a portal zone, the navigation is fired
\* at most once before the page unloads, for the entry and the exit portal.
C23_NavigationFiredOnce == navigations <= 1

\* C23, its case: the navigation has been fired, the document is still alive
\* and the player is still inside the portal.
C23_NavigationPending ==
    /\ navigations = 1
    /\ ~pageUnloaded
    /\ locationHref # NoNavigation
    /\ \/ InPortal(rendered.position, startPortalZ)
       \/ InPortal(rendered.position, exitPortalZ)


\* The health of the Boss, in the ref of Game or in the state, is at 0 and
\* bossDefeated is false
Inconsistent ==
    /\ currentBossHealthRef <= 0 \/ gameState.bossHealth <= 0
    /\ ~gameState.bossDefeated

\* C24: a state in which bossHealth <= 0 while bossDefeated is false is
\* corrected on the next tick: a commit is pending in such a state, and that
\* commit sets bossDefeated with bossHealth 0, without a further attack.
C24_InconsistencyCorrected ==
    [][/\ Inconsistent => dirty
       /\ Inconsistent' => dirty'
       /\ (Inconsistent /\ Render)
            => /\ gameState'.bossDefeated
               /\ gameState'.bossHealth = 0]_vars

\* C24, its case: after the final attack a movement tick has put back
\* bossDefeated false and a positive bossHealth, while the ref of Game is at 0.
C24_DefeatOverwritten ==
    /\ currentBossHealthRef = 0
    /\ ~gameState.bossDefeated
    /\ gameState.bossHealth > 0
    /\ bossMounted
    /\ isDying


\* A slot of g that is set is unset in h
SlotCleared(g, h) ==
    \/ g.weapon # null /\ h.weapon = null
    \/ g.armour # null /\ h.armour = null
    \/ g.magic # null /\ h.magic = null

\* C25: once an equipment slot is set it returns to unset only by a full
\* reset, the restart or the fall-off, whatever movement ticks, frame
\* callbacks and timers run.
C25_SlotsStaySet ==
    [][SlotCleared(gameState, gameState') => (handleRestartGame \/ FellOffStep)]_vars

\* C25, its case: after a restart the player has picked up a weapon again
\* while the timeout of the restart is still pending.
C25_PickedUpAfterRestart ==
    /\ ResetDone
    /\ invulnTimers # << >>
    /\ gameState.weapon # null
    /\ gameState.armour = null
    /\ gameState.stage = 1


\* C26: bossDefeated is set once per session: after it has become true it
\* stays true in every later state until a full reset.
C26_DefeatedStaysTrue ==
    [][(gameState.bossDefeated /\ ~gameState'.bossDefeated) => handleRestartGame]_vars

\* C26, its case: the Boss has been brought to 0 in this session, no restart
\* has happened, and the stored bossDefeated is false with a pending commit.
C26_DefeatedFlagLost ==
    /\ restarts = 0
    /\ localBossHealth = 0
    /\ isDying
    /\ ~gameState.bossDefeated
    /\ ~rendered.bossDefeated
    /\ dirty


\* A frame of the Boss applies damage
DamageStep == BossFrame /\ localBossHealth' # localBossHealth

\* C27: attacks follow a periodic timer measured from the last attack: a
\* damage application comes a full attack interval after the one before, it
\* resets the timer, and however many intervals have passed it is a single
\* attack: the next frame finds no attack due.
C27_AttackPeriod ==
    [][DamageStep
          => /\ sinceAttack >= attackInterval
             /\ sinceAttack' = 0
             /\ ~AttackDue']_vars

\* C27, its case: the Boss has attacked before, a frame was late, and more
\* than one attack interval has passed since the last attack.
C27_LateFrame ==
    /\ bossMounted
    /\ ~isDescending
    /\ ~isDying
    /\ localBossHealth < initialBossHealth
    /\ sinceAttack > attackInterval


\* A requestAnimationFrame tick of the movement loop writes the position
MovementWrite == \E v \in WalkVelocities : updateMovement(v[1], v[2])

\* C28: every GameState write is one atomic read, compute and write of the
\* whole state, so no update is lost: a movement position write leaves
\* bossHealth, bossDefeated and collectedBlocks as the latest write of another
\* component left them.
C28_MovementWriteKeepsOthers ==
    [][MovementWrite
          => /\ gameState'.bossHealth = gameState.bossHealth
             /\ gameState'.bossDefeated = gameState.bossDefeated
             /\ gameState'.collectedBlocks = gameState.collectedBlocks]_vars

\* C28, its case: another component has written bossHealth, bossDefeated or
\* collectedBlocks since the snapshot the movement loop holds was taken.
C28_WriteSinceSnapshot ==
    /\ dirty
    /\ \/ gameState.bossHealth # rendered.bossHealth
       \/ gameState.bossDefeated # rendered.bossDefeated
       \/ gameState.collectedBlocks # rendered.collectedBlocks


\* C29: the fall-off reset never triggers: position.x is clamped to
\* [-1.9, 1.9] and the mesh starts inside and only interpolates toward, or is
\* set to, a clamped position, so the lateral value a frame tests stays within
\* the clamp, never exceeds 2, and no frame takes the fall-off branch.
C29_FallOffNeverTriggers ==
    [][PlayerFrame
          => /\ Abs(LerpedPos.x) <= XClamp
             /\ Abs(LerpedPos.x) <= FallOffX
             /\ ~FellOffStep]_vars

\* C29, its case: the player has been moved to the lateral clamp and the mesh
\* has followed it there.
C29_MeshAtClamp ==
    /\ moves > 0
    /\ Abs(positionRef.x) = XClamp
    /\ Abs(currentPos.x) = XClamp


\* C30: equipment slots are filled strictly in stage order: in every
\* reachable state armour non-null implies weapon non-null, and magic non-null
\* implies armour non-null.
C30_SlotsInStageOrder ==
    /\ gameState.armour # null => gameState.weapon # null
    /\ gameState.magic # null => gameState.armour # null

\* C30, its case: the cards of the first two stages have been picked up and
\* the third stage is still open.
C30_TwoStagesDone ==
    /\ gameState.weapon # null
    /\ gameState.armour # null
    /\ gameState.magic = null
    /\ gameState.stage = 2

====
